---- MODULE Spec2Model ----
(***************************************************************************)
(* gb::Task and gb::TaskRunner (GlitchyByte/gblib) as a state machine.     *)
(*                                                                         *)
(* Threads of the model: the application threads that call the public API  *)
(* (Callers), one worker thread per started task (the lambda spawned by    *)
(* TaskRunner::start) and the reaper thread spawned by the TaskRunner      *)
(* constructor (threadController).  Every critical section that only       *)
(* touches data guarded by the lock it holds is one step; a step ends      *)
(* wherever the thread can block (a mutex, a condition variable, a join).  *)
(* Next to them: the process-wide task id counter read by the Task         *)
(* constructor, and gb::ShutdownMonitor with the threads that wait on it   *)
(* and trigger it.                                                         *)
(***************************************************************************)
EXTENDS Integers, Sequences, FiniteSets, TLC

\* Number of Task objects the application constructs per runner lifetime.
NumTasks == 2
\* Number of application threads calling the public API.
NumCallers == 2

\* Number of Task objects that exist at a time.
MaxTaskObjects == 3
\* Number of Task constructions in an execution.
MaxConstructions == 5
\* Number of threads that use a ShutdownMonitor.
NumMonitorThreads == 3

Tasks == 1..NumTasks
Callers == 1..NumCallers
TaskObjects == 1..MaxTaskObjects
MonitorThreads == 1..NumMonitorThreads

\* Thread identities (owners of the mutexes).
NoThread == <<"none", 0>>
ReaperThread == <<"reaper", 0>>
Caller(c) == <<"caller", c>>
Worker(t) == <<"worker", t>>
MonitorThread(m) == <<"monitor", m>>

\* Task::State
States == {"Created", "Started", "Canceled", "Finished"}

\* The Task subclasses of tests/taskRunner.cc: SimpleTask calls started(),
\* adds its item and returns; CancelableTask calls started(), loops until
\* shouldCancel() is true and then adds its item.
Kinds == {"Simple", "Cancelable"}

\* A Task subclass whose action() calls started() and then starts another
\* task on its own runner: getTaskRunner()->start(child).
ParentKinds == {"Parent"}

\* SlowTask of tests/taskRunner.cc: calls started(), sleeps, and adds its item
\* unless shouldCancel() is true.
SlowKinds == {"Slow"}

\* A subclass whose action() returns without calling started(), against the
\* MUST of Task::action and Task::started.
SilentKinds == {"Silent"}

VARIABLES
    _true,                      \* gb::_true, the process-wide "true typed rvalue"
    alive,                      \* the TaskRunner object exists (constructed, not destroyed)
    terminated,                 \* std::terminate() was called: the process is gone
    _isActive,                  \* TaskRunner::_isActive
    tasks,                      \* TaskRunner::tasks, the live set (task ids)
    tasksLock,                  \* owner of TaskRunner::tasksLock
    threadControllerLock,       \* owner of TaskRunner::threadControllerLock
    threadControllerShouldExit, \* TaskRunner::threadControllerShouldExit
    finishingTasks,             \* TaskRunner::finishingTasks
    threadController,           \* position of the reaper thread
    reaperIndex,                \* the reaper's position in its for loop over finishingTasks
    threadControllerJoined,     \* threadController.join() has completed (no longer joinable)
    taskKind,                   \* the subclass of each Task object
    items,                      \* tasks whose action has added its item (the side effect)
    state,                      \* Task::state
    _shouldCancel,              \* Task::_shouldCancel
    runner,                     \* Task::runner is set (non-null)
    thread,                     \* position of Task::thread, the worker thread
    pc,                         \* position of each application thread
    arg,                        \* the task argument of the call in progress
    cursor,                     \* tasks a cancel loop has still to visit
    ret,                        \* what the caller's last completed call returned
    dtor,                       \* the thread running ~TaskRunner, if any
    flipper,                    \* the shutdown() call that changed _isActive from true to false
    snapshot,                   \* the live set when that call changed the flag
    cancelCalled,               \* tasks that call has invoked cancel() on
    nextTaskId,                 \* Task::nextTaskId, the process-wide id counter
    taskId,                     \* Task::taskId of every Task object that exists
    taskCtor,                   \* the Task constructors in progress, by thread
    issued,                     \* the ids handed out by the counter, in order
    isShuttingDown,             \* ShutdownMonitor::isShuttingDown
    shutdownLock,               \* owner of ShutdownMonitor::shutdownLock
    monitorPc,                  \* position of each thread using the monitor
    timedWait,                  \* the threads inside awaitShutdown(timeout)
    monitorRet                  \* how the last monitor call of each thread ended

vars == <<_true, alive, terminated, _isActive, tasks, tasksLock, threadControllerLock,
          threadControllerShouldExit, finishingTasks, threadController, reaperIndex,
          threadControllerJoined, taskKind, items, state, _shouldCancel, runner, thread,
          pc, arg, cursor, ret, dtor, flipper, snapshot, cancelCalled,
          nextTaskId, taskId, taskCtor, issued,
          isShuttingDown, shutdownLock, monitorPc, timedWait, monitorRet>>

idVars == <<nextTaskId, taskId, taskCtor, issued>>
monitorVars == <<isShuttingDown, shutdownLock, monitorPc, timedWait, monitorRet>>
libraryVars == <<idVars, monitorVars>>
processVars == <<_true, alive, terminated>>
runnerVars == <<_isActive, tasks, tasksLock, threadControllerLock, threadControllerShouldExit,
                finishingTasks, threadController, reaperIndex, threadControllerJoined>>
taskVars == <<taskKind, items, state, _shouldCancel, runner, thread>>
callerVars == <<pc, arg, cursor, ret, dtor>>
historyVars == <<flipper, snapshot, cancelCalled>>

----------------------------------------------------------------------------
(* Task *)

\* isStopped() that also holds in state Started.
isStoppedOrStarted(t) == state[t] # "Created"

\* Task::isStopped
isStopped(t) == state[t] = "Canceled" \/ state[t] = "Finished"

\* Task::shouldCancel
shouldCancel(t) == _shouldCancel[t]

\* started() without its guard: the state becomes Started whatever it was.
startedUnguarded(s) == "Started"

\* started() that also applies from Canceled and Finished.
startedRestarts(s) == IF s = "Started" THEN s ELSE "Started"

\* Task::started: Created -> Started, otherwise nothing.
startedState(s) == IF s # "Created" THEN s ELSE "Started"

\* Task::canceled: Started -> Canceled, otherwise nothing.
canceledState(s) == IF s # "Started" THEN s ELSE "Canceled"

\* finished() without its guard: the state becomes Finished whatever it was.
finishedUnguarded(s) == "Finished"

\* Task::finished: Started -> Finished, otherwise nothing.
finishedState(s) == IF s # "Started" THEN s ELSE "Finished"

\* cancel() that flips the flag instead of setting it.
cancelFlagToggle(s, f) == IF s # "Started" THEN f ELSE ~f

\* cancel() that sets the flag in every state.
cancelFlagAlways(s, f) == TRUE

\* Task::cancel: sets the flag when, and only when, the state is Started.
cancelFlag(s, f) == IF s # "Started" THEN f ELSE TRUE

\* awaitStart() that does not wait.
awaitStartNoWait(t) == TRUE

\* The predicate Task::awaitStart waits for.
awaitStartPred(t) == state[t] # "Created"

\* The threads blocked in stateChangedSignal.wait of task t.
stateChangedSignal(t) ==
    {c \in Callers : pc[c] \in {"start_blocked", "stop_blocked"} /\ arg[c] = t}

\* A notification of stateChangedSignal that wakes one waiter only.
notify_single(p, t) ==
    LET W == {c \in Callers : arg[c] = t /\ p[c] \in {"start_blocked", "stop_blocked"}} IN
    IF W = {} THEN p
    ELSE LET w == CHOOSE c \in W : \A d \in W : c <= d IN
         [p EXCEPT ![w] = IF @ = "start_blocked" THEN "start_await" ELSE "stop_check"]

\* stateChangedSignal.notify_all() of task t, applied to the positions p.
notify_all(p, t) ==
    [c \in Callers |->
        IF arg[c] = t /\ p[c] = "start_blocked" THEN "start_await"
        ELSE IF arg[c] = t /\ p[c] = "stop_blocked" THEN "stop_check"
        ELSE p[c]]

\* A transition of task t to state s: the state is written and, when it
\* changed (the methods return early otherwise), the waiters are notified.
transition(t, s) ==
    /\ state' = [state EXCEPT ![t] = s]
    /\ pc' = IF s # state[t] THEN notify_all(pc, t) ELSE pc

----------------------------------------------------------------------------
(* TaskRunner *)

\* TaskRunner::isActive
isActive == _isActive

\* A compare-and-set that, when it fails, stores the expected operand in the
\* flag instead of the flag in the expected operand.
compare_exchange_swapped(actual, expected, desired) ==
    IF actual = expected
    THEN [success |-> TRUE, value |-> desired, expected |-> expected]
    ELSE [success |-> FALSE, value |-> expected, expected |-> actual]

\* std::atomic<bool>::compare_exchange_strong(expected, desired) on a flag
\* holding actual: on success the flag becomes desired, on failure expected
\* is overwritten by the flag's value.
compare_exchange_strong(actual, expected, desired) ==
    IF actual = expected
    THEN [success |-> TRUE, value |-> desired, expected |-> expected]
    ELSE [success |-> FALSE, value |-> actual, expected |-> actual]

\* The threads blocked in isEmptySignal.wait.
isEmptySignal == {c \in Callers : pc[c] \in {"shutdown_blocked", "awaitAll_blocked"}}

\* The position of a thread woken from isEmptySignal.wait.
woken(p) == IF p = "shutdown_blocked" THEN "shutdown_wake" ELSE "awaitAll_wake"

\* The next task a loop over the ordered live set visits.
first(S) == CHOOSE t \in S : \A u \in S : t <= u

\* The state after construction of the runner and of Task objects of the
\* subclasses K, before any call.
Construction(K) ==
    /\ _true = TRUE
    /\ alive = TRUE
    /\ terminated = FALSE
    /\ _isActive = TRUE
    /\ tasks = {}
    /\ tasksLock = NoThread
    /\ threadControllerLock = NoThread
    /\ threadControllerShouldExit = FALSE
    /\ finishingTasks = <<>>
    /\ threadController = "lock"
    /\ reaperIndex = 0
    /\ threadControllerJoined = FALSE
    /\ taskKind \in [Tasks -> K]
    /\ items = {}
    /\ state = [t \in Tasks |-> "Created"]
    /\ _shouldCancel = [t \in Tasks |-> FALSE]
    /\ runner = [t \in Tasks |-> FALSE]
    /\ thread = [t \in Tasks |-> "none"]
    /\ pc = [c \in Callers |-> "idle"]
    /\ arg = [c \in Callers |-> 0]
    /\ cursor = [c \in Callers |-> {}]
    /\ ret = [c \in Callers |-> "none"]
    /\ dtor = NoThread
    /\ flipper = NoThread
    /\ snapshot = {}
    /\ cancelCalled = {}
    /\ nextTaskId = 0
    /\ taskId = <<>>
    /\ taskCtor = <<>>
    /\ issued = <<>>
    /\ isShuttingDown = FALSE
    /\ shutdownLock = NoThread
    /\ monitorPc = [m \in MonitorThreads |-> "idle"]
    /\ timedWait = {}
    /\ monitorRet = [m \in MonitorThreads |-> "none"]

Init == Construction(Kinds)

----------------------------------------------------------------------------
(* Application threads *)

\* A thread may make a new call: the runner exists, the process runs, no
\* destructor has begun, and the thread is not inside a call.
CanCall(c) == alive /\ ~terminated /\ dtor = NoThread /\ pc[c] = "idle"

\* A call in progress may take its next step.
InCall(c, p) == alive /\ ~terminated /\ pc[c] = p

\* start() without the call of setTaskRunner().
setTaskRunnerSkipped(r, t) == r

\* Task::setTaskRunner, called at line 120 before the thread is spawned: the
\* back-references after the call for task t.
setTaskRunner(r, t) == [r EXCEPT ![t] = TRUE]

\* start() without the check of the insert of lines 116-119.
startAcceptsDuplicate(t) == isActive

\* start() without the isActive() check of line 113.
startAcceptsInactive(t) == t \notin tasks

\* TaskRunner::start, lines 113-119: the task is accepted when the runner is
\* active and the live set holds no task of the same id.
startAccepts(t) == isActive /\ t \notin tasks

\* A start() that gives tasksLock up before it waits in awaitStart().
unlockedDuringAwait(c) == NoThread

\* The owner of tasksLock while start() waits in awaitStart(): the lock_guard
\* of line 112 lives until the return.
lockedDuringAwait(c) == Caller(c)

\* TaskRunner::start up to the spawn of the worker thread (lines 112-129).
StartCall(c, t) ==
    /\ CanCall(c)
    /\ tasksLock = NoThread
    /\ IF startAccepts(t)
       THEN /\ tasks' = tasks \cup {t}
            /\ runner' = setTaskRunner(runner, t)
            /\ thread' = [thread EXCEPT ![t] = "action"]
            /\ tasksLock' = lockedDuringAwait(c)
            /\ pc' = [pc EXCEPT ![c] = "start_await"]
            /\ arg' = [arg EXCEPT ![c] = t]
            /\ ret' = [ret EXCEPT ![c] = "none"]
       ELSE /\ ret' = [ret EXCEPT ![c] = "start_false"]
            /\ arg' = [arg EXCEPT ![c] = 0]
            /\ UNCHANGED <<tasks, runner, thread, tasksLock, pc>>
    /\ UNCHANGED <<libraryVars, processVars, _isActive, threadControllerLock, threadControllerShouldExit,
                   finishingTasks, threadController, reaperIndex, threadControllerJoined,
                   taskKind, items, state, _shouldCancel, cursor, dtor, flipper, snapshot, cancelCalled>>

\* task->awaitStart() and the return of TaskRunner::start (lines 130-131):
\* tasksLock is held while the caller waits.
StartAwait(c) ==
    /\ InCall(c, "start_await")
    /\ IF awaitStartPred(arg[c])
       THEN /\ tasksLock' = NoThread
            /\ pc' = [pc EXCEPT ![c] = "idle"]
            /\ arg' = [arg EXCEPT ![c] = 0]
            /\ ret' = [ret EXCEPT ![c] = "start_true"]
       ELSE /\ pc' = [pc EXCEPT ![c] = "start_blocked"]
            /\ UNCHANGED <<tasksLock, arg, ret>>
    /\ UNCHANGED <<libraryVars, processVars, _isActive, tasks, threadControllerLock, threadControllerShouldExit,
                   finishingTasks, threadController, reaperIndex, threadControllerJoined,
                   taskVars, cursor, dtor, historyVars>>

\* Task::cancel called by the application.
CancelCall(c, t) ==
    /\ CanCall(c)
    /\ _shouldCancel' = [_shouldCancel EXCEPT ![t] = cancelFlag(state[t], @)]
    /\ arg' = [arg EXCEPT ![c] = 0]
    /\ ret' = [ret EXCEPT ![c] = "cancel"]
    /\ UNCHANGED <<libraryVars, processVars, runnerVars, taskKind, items, state, runner, thread, pc, cursor, dtor,
                   flipper, snapshot, cancelCalled>>

\* Task::awaitStop: the predicate is checked under stateLock; the caller
\* returns or blocks in stateChangedSignal.wait.
AwaitStopCheck(c, t) ==
    /\ IF isStopped(t)
       THEN /\ pc' = [pc EXCEPT ![c] = "idle"]
            /\ arg' = [arg EXCEPT ![c] = 0]
            /\ ret' = [ret EXCEPT ![c] = "awaitStop"]
       ELSE /\ pc' = [pc EXCEPT ![c] = "stop_blocked"]
            /\ arg' = [arg EXCEPT ![c] = t]
            /\ ret' = [ret EXCEPT ![c] = "none"]
    /\ UNCHANGED <<libraryVars, processVars, runnerVars, taskVars, cursor, dtor, flipper, snapshot, cancelCalled>>

AwaitStopCall(c, t) == CanCall(c) /\ AwaitStopCheck(c, t)

AwaitStopWake(c) ==
    /\ ~terminated
    /\ pc[c] = "stop_check"
    /\ AwaitStopCheck(c, arg[c])

\* One iteration of "for (auto const& task: tasks) task->cancel();" under tasksLock.
CancelNext(c) ==
    LET t == first(cursor[c]) IN
    /\ _shouldCancel' = [_shouldCancel EXCEPT ![t] = cancelFlag(state[t], @)]
    /\ cursor' = [cursor EXCEPT ![c] = @ \ {t}]
    /\ cancelCalled' = IF flipper = Caller(c) THEN cancelCalled \cup {t} ELSE cancelCalled

\* TaskRunner::cancelAll, lines 138-141.
CancelAllCall(c) ==
    /\ CanCall(c)
    /\ tasksLock = NoThread
    /\ IF tasks = {}
       THEN /\ ret' = [ret EXCEPT ![c] = "cancelAll"]
            /\ UNCHANGED <<tasksLock, pc, cursor>>
       ELSE /\ tasksLock' = Caller(c)
            /\ pc' = [pc EXCEPT ![c] = "cancelAll_cancel"]
            /\ cursor' = [cursor EXCEPT ![c] = tasks]
            /\ ret' = [ret EXCEPT ![c] = "none"]
    /\ UNCHANGED <<libraryVars, processVars, _isActive, tasks, threadControllerLock, threadControllerShouldExit,
                   finishingTasks, threadController, reaperIndex, threadControllerJoined,
                   taskVars, arg, dtor, flipper, snapshot, cancelCalled>>

CancelAllCancel(c) ==
    /\ InCall(c, "cancelAll_cancel")
    /\ CancelNext(c)
    /\ IF cursor'[c] = {}
       THEN /\ tasksLock' = NoThread
            /\ pc' = [pc EXCEPT ![c] = "idle"]
            /\ ret' = [ret EXCEPT ![c] = "cancelAll"]
       ELSE UNCHANGED <<tasksLock, pc, ret>>
    /\ UNCHANGED <<libraryVars, processVars, _isActive, tasks, threadControllerLock, threadControllerShouldExit,
                   finishingTasks, threadController, reaperIndex, threadControllerJoined,
                   taskKind, items, state, runner, thread, arg, dtor, flipper, snapshot>>

\* A drain wait that is over as soon as fewer than two tasks are left.
drainedBelowTwo == Cardinality(tasks) < 2

\* A drain wait that does not wait for the live set to empty.
drainedNoWait == TRUE

\* The predicate awaitAll() and shutdown() wait for on isEmptySignal.
drained == tasks = {}

\* TaskRunner::awaitAll, lines 148-149: with tasksLock taken, return when the
\* live set is empty, else release the lock and block on isEmptySignal.
AwaitAllCheck(c) ==
    /\ tasksLock = NoThread
    /\ IF drained
       THEN /\ pc' = [pc EXCEPT ![c] = "idle"]
            /\ ret' = [ret EXCEPT ![c] = "awaitAll"]
       ELSE /\ pc' = [pc EXCEPT ![c] = "awaitAll_blocked"]
            /\ ret' = [ret EXCEPT ![c] = "none"]
    /\ UNCHANGED <<libraryVars, processVars, runnerVars, taskVars, arg, cursor, dtor, flipper, snapshot, cancelCalled>>

AwaitAllCall(c) == CanCall(c) /\ AwaitAllCheck(c)

AwaitAllWake(c) == InCall(c, "awaitAll_wake") /\ AwaitAllCheck(c)


----------------------------------------------------------------------------
(* TaskRunner::shutdown and ~TaskRunner *)

\* Where a shutdown() call returns to: the destructor's shutdown() returns
\* into the destruction of the members.
returnTo(c) == IF dtor = Caller(c) THEN "dtor_members" ELSE "idle"

\* shutdown() without the lock.unlock() of line 95: tasksLock stays held.
keepTasksLock(c) == Caller(c)

\* "lock.unlock()" of line 95: the owner of tasksLock once the drain wait is over.
unlockAfterDrain(c) == NoThread

\* Lines 87-90: tasksLock is taken and the flag is compare-and-set with
\* gb::_true as the expected operand.  A call that loses returns at once.
ShutdownEnter(c) ==
    LET cas == compare_exchange_strong(_isActive, _true, FALSE) IN
    /\ alive /\ ~terminated
    /\ tasksLock = NoThread
    /\ _isActive' = cas.value
    /\ _true' = cas.expected
    /\ IF cas.success
       THEN /\ tasksLock' = Caller(c)
            /\ pc' = [pc EXCEPT ![c] = IF tasks = {} THEN "shutdown_wait" ELSE "shutdown_cancel"]
            /\ cursor' = [cursor EXCEPT ![c] = tasks]
            /\ ret' = [ret EXCEPT ![c] = "none"]
            /\ flipper' = IF _isActive THEN Caller(c) ELSE flipper
            /\ snapshot' = IF _isActive THEN tasks ELSE snapshot
            /\ cancelCalled' = IF _isActive THEN {} ELSE cancelCalled
       ELSE /\ pc' = [pc EXCEPT ![c] = returnTo(c)]
            /\ ret' = [ret EXCEPT ![c] = "shutdown_noop"]
            /\ UNCHANGED <<tasksLock, cursor, flipper, snapshot, cancelCalled>>
    /\ arg' = [arg EXCEPT ![c] = 0]
    /\ UNCHANGED <<libraryVars, alive, terminated, tasks, threadControllerLock, threadControllerShouldExit,
                   finishingTasks, threadController, reaperIndex, threadControllerJoined,
                   taskVars>>

ShutdownCall(c) == CanCall(c) /\ ShutdownEnter(c) /\ UNCHANGED dtor

\* ~TaskRunner, line 68: the destructor calls shutdown().
DestructorCall(c) ==
    /\ CanCall(c)
    /\ dtor' = Caller(c)
    /\ pc' = [pc EXCEPT ![c] = "dtor"]
    /\ arg' = [arg EXCEPT ![c] = 0]
    /\ ret' = [ret EXCEPT ![c] = "none"]
    /\ UNCHANGED <<libraryVars, processVars, runnerVars, taskVars, cursor, flipper, snapshot, cancelCalled>>

DestructorShutdown(c) ==
    /\ pc[c] = "dtor"
    /\ ShutdownEnter(c)
    /\ UNCHANGED dtor

\* Lines 91-93.
ShutdownCancel(c) ==
    /\ InCall(c, "shutdown_cancel")
    /\ CancelNext(c)
    /\ pc' = [pc EXCEPT ![c] = IF cursor'[c] = {} THEN "shutdown_wait" ELSE @]
    /\ UNCHANGED <<libraryVars, processVars, runnerVars, taskKind, items, state, runner, thread, arg, ret, dtor,
                   flipper, snapshot>>

\* Lines 94-95: isEmptySignal.wait(lock, tasks.empty()), entered with
\* tasksLock held or re-entered after a notification, then lock.unlock().
ShutdownWait(c) ==
    /\ \/ InCall(c, "shutdown_wait")
       \/ InCall(c, "shutdown_wake") /\ tasksLock = NoThread
    /\ IF drained
       THEN /\ tasksLock' = unlockAfterDrain(c)
            /\ pc' = [pc EXCEPT ![c] = "shutdown_ctl"]
       ELSE /\ tasksLock' = NoThread
            /\ pc' = [pc EXCEPT ![c] = "shutdown_blocked"]
    /\ UNCHANGED <<libraryVars, processVars, _isActive, tasks, threadControllerLock, threadControllerShouldExit,
                   finishingTasks, threadController, reaperIndex, threadControllerJoined,
                   taskVars, arg, cursor, ret, dtor, historyVars>>

\* Line 96: threadControllerLock is taken.
ShutdownControllerLock(c) ==
    /\ InCall(c, "shutdown_ctl")
    /\ threadControllerLock = NoThread
    /\ threadControllerLock' = Caller(c)
    /\ pc' = [pc EXCEPT ![c] = "shutdown_exit"]
    /\ UNCHANGED <<libraryVars, processVars, _isActive, tasks, tasksLock, threadControllerShouldExit,
                   finishingTasks, threadController, reaperIndex, threadControllerJoined,
                   taskVars, arg, cursor, ret, dtor, historyVars>>

\* A notification of threadControllerWakeUpSignal that is lost.
wakeUpLost(r) == r

\* threadControllerWakeUpSignal.notify_one(): the reaper is its only waiter.
wakeUp(r) == IF r = "blocked" THEN "wake" ELSE r

\* Lines 97-99: the exit flag is set, the reaper is notified, the lock released.
ShutdownExitFlag(c) ==
    /\ InCall(c, "shutdown_exit")
    /\ threadControllerShouldExit' = TRUE
    /\ threadController' = wakeUp(threadController)
    /\ threadControllerLock' = NoThread
    /\ pc' = [pc EXCEPT ![c] = "shutdown_join"]
    /\ UNCHANGED <<libraryVars, processVars, _isActive, tasks, tasksLock, finishingTasks, reaperIndex,
                   threadControllerJoined, taskVars, arg, cursor, ret, dtor, historyVars>>

\* The end of a shutdown() call that did the work.
ShutdownReturn(c) ==
    /\ pc' = [pc EXCEPT ![c] = returnTo(c)]
    /\ ret' = [ret EXCEPT ![c] = "shutdown"]
    /\ flipper' = IF flipper = Caller(c) THEN <<"returned", c>> ELSE flipper

\* Line 100, threadController.join(): std::thread::join throws
\* std::system_error when the thread is not joinable, and an exception leaving
\* the noexcept shutdown() calls std::terminate.
ShutdownJoin(c) ==
    /\ InCall(c, "shutdown_join")
    /\ IF threadControllerJoined
       THEN /\ terminated' = TRUE
            /\ UNCHANGED pc
       ELSE /\ pc' = [pc EXCEPT ![c] = "shutdown_joining"]
            /\ UNCHANGED terminated
    /\ UNCHANGED <<libraryVars, _true, alive, runnerVars, taskVars, arg, cursor, ret, dtor, historyVars>>

\* join() returns once the reaper thread has exited.  Two threads joining the
\* same std::thread race on it (undefined behaviour): the second pthread_join
\* either fails, which throws and terminates, or returns as well.
ShutdownJoined(c) ==
    /\ InCall(c, "shutdown_joining")
    /\ threadController = "exited"
    /\ \/ /\ threadControllerJoined' = TRUE
          /\ ShutdownReturn(c)
          /\ UNCHANGED terminated
       \/ /\ threadControllerJoined
          /\ terminated' = TRUE
          /\ UNCHANGED <<threadControllerJoined, pc, ret, flipper>>
    /\ UNCHANGED <<libraryVars, _true, alive, _isActive, tasks, tasksLock, threadControllerLock,
                   threadControllerShouldExit, finishingTasks, threadController, reaperIndex,
                   taskVars, arg, cursor, dtor, snapshot, cancelCalled>>

\* The members are destroyed after the destructor's body: ~std::thread calls
\* std::terminate when threadController is still joinable.
DestructorMembers(c) ==
    /\ InCall(c, "dtor_members")
    /\ IF threadControllerJoined
       THEN /\ alive' = FALSE
            /\ pc' = [pc EXCEPT ![c] = "idle"]
            /\ ret' = [ret EXCEPT ![c] = "destroyed"]
            /\ dtor' = NoThread
            /\ UNCHANGED terminated
       ELSE /\ terminated' = TRUE
            /\ UNCHANGED <<alive, pc, ret, dtor>>
    /\ UNCHANGED <<libraryVars, _true, runnerVars, taskVars, arg, cursor, historyVars>>


----------------------------------------------------------------------------
(* The worker thread of a task: the lambda of TaskRunner::start, lines 122-128 *)

\* The subclasses of the tests call started() first in action().
callsStarted(t) == taskKind[t] \notin SilentKinds

\* Where action() continues after started(): a parent task goes on to call
\* start(child), the other subclasses do their work.
afterStarted(t) == IF taskKind[t] \in ParentKinds THEN "child_lock" ELSE "running"

\* action() begins: started() is called, by the subclasses that call it.
WorkerStarted(t) ==
    /\ ~terminated
    /\ thread[t] = "action"
    /\ transition(t, IF callsStarted(t) THEN startedState(state[t]) ELSE state[t])
    /\ thread' = [thread EXCEPT ![t] = afterStarted(t)]
    /\ UNCHANGED <<libraryVars, processVars, runnerVars, taskKind, items, _shouldCancel, runner,
                   arg, cursor, ret, dtor, historyVars>>

\* A CancelableTask whose loop never ends.
actionNeverReturns(t) == taskKind[t] # "Cancelable"

\* action() can return: CancelableTask only once shouldCancel() is true, the
\* other subclasses after their work.
actionReturns(t) == taskKind[t] # "Cancelable" \/ shouldCancel(t)

\* addItem: items.insert(item).
addItem(S, t) == S \cup {t}

\* What action() does before it returns: SlowTask evaluates shouldCancel()
\* and returns without adding its item when it is true; SimpleTask and
\* CancelableTask add their item; the silent subclass does nothing.
addsItem(t) ==
    \/ taskKind[t] \in Kinds
    \/ taskKind[t] \in SlowKinds /\ ~shouldCancel(t)

\* The rest of action() and its return.
WorkerReturn(t) ==
    /\ ~terminated
    /\ thread[t] = "running"
    /\ actionReturns(t)
    /\ items' = IF addsItem(t) THEN addItem(items, t) ELSE items
    /\ thread' = [thread EXCEPT ![t] = "returned"]
    /\ UNCHANGED <<libraryVars, processVars, runnerVars, taskKind, state, _shouldCancel, runner,
                   callerVars, historyVars>>

\* The task a parent task starts from its action().
child(t) == IF t = NumTasks THEN 1 ELSE t + 1

\* Task::getTaskRunner: the back-reference set by setTaskRunner().
getTaskRunner(t) == runner[t]

\* getTaskRunner()->start(child) called from action(), on the worker thread
\* of t: TaskRunner::start up to the spawn of the child's thread.
ParentStartChild(t) ==
    LET u == child(t) IN
    /\ alive /\ ~terminated
    /\ thread[t] = "child_lock"
    /\ getTaskRunner(t)
    /\ tasksLock = NoThread
    /\ IF startAccepts(u)
       THEN /\ tasks' = tasks \cup {u}
            /\ runner' = setTaskRunner(runner, u)
            /\ thread' = [thread EXCEPT ![u] = "action", ![t] = "child_await"]
            /\ tasksLock' = Worker(t)
       ELSE /\ thread' = [thread EXCEPT ![t] = "child_false"]
            /\ UNCHANGED <<tasks, runner, tasksLock>>
    /\ UNCHANGED <<libraryVars, processVars, _isActive, threadControllerLock, threadControllerShouldExit,
                   finishingTasks, threadController, reaperIndex, threadControllerJoined,
                   taskKind, items, state, _shouldCancel, callerVars, historyVars>>

\* child->awaitStart() and the return of start(child) into action(): the
\* worker thread of t waits, holding tasksLock, until the child has left Created.
ParentAwaitChild(t) ==
    /\ ~terminated
    /\ thread[t] = "child_await"
    /\ awaitStartPred(child(t))
    /\ tasksLock' = NoThread
    /\ thread' = [thread EXCEPT ![t] = "child_true"]
    /\ UNCHANGED <<libraryVars, processVars, _isActive, tasks, threadControllerLock, threadControllerShouldExit,
                   finishingTasks, threadController, reaperIndex, threadControllerJoined,
                   taskKind, items, state, _shouldCancel, runner, callerVars, historyVars>>

\* The action() of a parent task returns once its start(child) has returned.
ParentReturn(t) ==
    /\ ~terminated
    /\ thread[t] \in {"child_true", "child_false"}
    /\ thread' = [thread EXCEPT ![t] = "returned"]
    /\ UNCHANGED <<libraryVars, processVars, runnerVars, taskKind, items, state, _shouldCancel, runner,
                   callerVars, historyVars>>

\* A worker lambda without the call of finished().
afterActionNothing(s) == s

\* The state the worker moves its task to once action() has returned:
\* line 124 calls task->finished().
afterAction(s) == finishedState(s)

WorkerFinished(t) ==
    /\ ~terminated
    /\ thread[t] = "returned"
    /\ transition(t, afterAction(state[t]))
    /\ thread' = [thread EXCEPT ![t] = "enqueue"]
    /\ UNCHANGED <<libraryVars, processVars, runnerVars, taskKind, items, _shouldCancel, runner,
                   arg, cursor, ret, dtor, historyVars>>

\* Lines 125-127: under threadControllerLock the task is queued for the
\* reaper, which is notified; the thread then ends.
WorkerEnqueue(t) ==
    /\ alive /\ ~terminated
    /\ thread[t] = "enqueue"
    /\ threadControllerLock = NoThread
    /\ finishingTasks' = Append(finishingTasks, t)
    /\ threadController' = wakeUp(threadController)
    /\ thread' = [thread EXCEPT ![t] = "exited"]
    /\ UNCHANGED <<libraryVars, processVars, _isActive, tasks, tasksLock, threadControllerLock,
                   threadControllerShouldExit, reaperIndex, threadControllerJoined,
                   taskKind, items, state, _shouldCancel, runner, callerVars, historyVars>>

----------------------------------------------------------------------------
(* The reaper thread: the lambda of the TaskRunner constructor, lines 45-58 *)

\* The predicate the reaper waits for on threadControllerWakeUpSignal.
reaperPred == threadControllerShouldExit \/ finishingTasks # <<>>

\* Lines 46-51: with threadControllerLock held (taken at the start, retaken
\* after a notification, or still held after the for loop) the reaper blocks
\* until the predicate holds, then exits or enters the for loop.
ReaperWait ==
    /\ alive /\ ~terminated
    /\ \/ threadController \in {"lock", "wake"} /\ threadControllerLock = NoThread
       \/ threadController = "check"
    /\ IF ~reaperPred
       THEN /\ threadController' = "blocked"
            /\ threadControllerLock' = NoThread
            /\ UNCHANGED reaperIndex
       ELSE IF threadControllerShouldExit
       THEN /\ threadController' = "exited"
            /\ threadControllerLock' = NoThread
            /\ UNCHANGED reaperIndex
       ELSE /\ threadController' = "join"
            /\ threadControllerLock' = ReaperThread
            /\ reaperIndex' = 1
    /\ UNCHANGED <<libraryVars, processVars, _isActive, tasks, tasksLock, threadControllerShouldExit,
                   finishingTasks, threadControllerJoined, taskVars, callerVars, historyVars>>

\* Line 53, task->thread.join(): returns once the worker thread has ended;
\* joining a thread that is not joinable throws, which terminates.
ReaperJoin ==
    LET t == finishingTasks[reaperIndex] IN
    /\ alive /\ ~terminated
    /\ threadController = "join"
    /\ \/ /\ thread[t] = "exited"
          /\ thread' = [thread EXCEPT ![t] = "joined"]
          /\ threadController' = "remove"
          /\ UNCHANGED terminated
       \/ /\ thread[t] \in {"none", "joined"}
          /\ terminated' = TRUE
          /\ UNCHANGED <<thread, threadController>>
    /\ UNCHANGED <<libraryVars, _true, alive, _isActive, tasks, tasksLock, threadControllerLock,
                   threadControllerShouldExit, finishingTasks, reaperIndex, threadControllerJoined,
                   taskKind, items, state, _shouldCancel, runner, callerVars, historyVars>>

\* TaskRunner::removeTask, line 154: tasksLock is taken; the reaper still
\* holds threadControllerLock.
ReaperRemoveLock ==
    /\ alive /\ ~terminated
    /\ threadController = "remove"
    /\ tasksLock = NoThread
    /\ tasksLock' = ReaperThread
    /\ threadController' = "erase"
    /\ UNCHANGED <<libraryVars, processVars, _isActive, tasks, threadControllerLock, threadControllerShouldExit,
                   finishingTasks, reaperIndex, threadControllerJoined, taskVars, callerVars,
                   historyVars>>

\* isEmptySignal.notify_one(): the positions that can result from p, one
\* waiter woken, whichever the implementation picks.
notify_one(p) ==
    IF isEmptySignal = {} THEN {p}
    ELSE {[p EXCEPT ![c] = woken(p[c])] : c \in isEmptySignal}

\* TaskRunner::removeTask, lines 155-158, then the next iteration of the for
\* loop or, after the last one, finishingTasks.clear() (line 56).
ReaperErase ==
    LET t == finishingTasks[reaperIndex] IN
    /\ alive /\ ~terminated
    /\ threadController = "erase"
    /\ tasks' = tasks \ {t}
    /\ pc' \in (IF tasks' = {} THEN notify_one(pc) ELSE {pc})
    /\ tasksLock' = NoThread
    /\ IF reaperIndex < Len(finishingTasks)
       THEN /\ reaperIndex' = reaperIndex + 1
            /\ threadController' = "join"
            /\ UNCHANGED finishingTasks
       ELSE /\ reaperIndex' = 0
            /\ threadController' = "check"
            /\ finishingTasks' = <<>>
    /\ UNCHANGED <<libraryVars, processVars, _isActive, threadControllerLock, threadControllerShouldExit,
                   threadControllerJoined, taskVars, arg, cursor, ret, dtor, historyVars>>

----------------------------------------------------------------------------
(* The process *)

\* After a runner was destroyed the application constructs the next one, and
\* new Task objects with it.  gb::_true is a variable of the process: it keeps
\* the value the earlier runners left in it.
Construct ==
    /\ ~alive /\ ~terminated
    /\ \A c \in Callers : pc[c] = "idle"
    /\ alive' = TRUE
    /\ _isActive' = TRUE
    /\ tasks' = {}
    /\ tasksLock' = NoThread
    /\ threadControllerLock' = NoThread
    /\ threadControllerShouldExit' = FALSE
    /\ finishingTasks' = <<>>
    /\ threadController' = "lock"
    /\ reaperIndex' = 0
    /\ threadControllerJoined' = FALSE
    /\ state' = [t \in Tasks |-> "Created"]
    /\ _shouldCancel' = [t \in Tasks |-> FALSE]
    /\ runner' = [t \in Tasks |-> FALSE]
    /\ thread' = [t \in Tasks |-> "none"]
    /\ arg' = [c \in Callers |-> 0]
    /\ cursor' = [c \in Callers |-> {}]
    /\ ret' = [c \in Callers |-> "none"]
    /\ flipper' = NoThread
    /\ snapshot' = {}
    /\ cancelCalled' = {}
    /\ items' = {}
    /\ UNCHANGED <<libraryVars, _true, terminated, taskKind, pc, dtor>>

----------------------------------------------------------------------------
(* Task ids: Task::nextTaskId and the Task constructor *)

\* The variables of the task runner model.
runnerModelVars == <<processVars, runnerVars, taskVars, callerVars, historyVars>>

\* A post-increment that hands out the value and leaves the counter as it is.
fetch_add_lost(v) == [value |-> v, next |-> v]

\* nextTaskId++ on std::atomic<uint64_t>: one atomic read-modify-write that
\* yields the old value.  The counter is 64 bits wide; MaxConstructions keeps
\* it below the wrap.
fetch_add(v) == [value |-> v, next |-> v + 1]

\* f with x mapped to y.
extend(f, x, y) == [z \in DOMAIN f \cup {x} |-> IF z = x THEN y ELSE f[z]]

\* f without x.
without(f, x) == [z \in DOMAIN f \ {x} |-> f[z]]

\* The Task objects under construction.
underConstruction == {taskCtor[c].object : c \in DOMAIN taskCtor}

\* Task::Task, the member initializer "taskId(nextTaskId++)": thread c begins
\* to construct object o and takes its id from the counter.
TaskConstruct(c, o) ==
    LET r == fetch_add(nextTaskId) IN
    /\ c \notin DOMAIN taskCtor
    /\ o \notin DOMAIN taskId \cup underConstruction
    /\ nextTaskId < MaxConstructions
    /\ nextTaskId' = r.next
    /\ taskCtor' = extend(taskCtor, c, [object |-> o, id |-> r.value])
    /\ issued' = Append(issued, r.value)
    /\ UNCHANGED <<taskId, monitorVars, runnerModelVars>>

\* The constructor returns: the object exists, with its const taskId.
TaskConstructed(c) ==
    /\ c \in DOMAIN taskCtor
    /\ taskId' = extend(taskId, taskCtor[c].object, taskCtor[c].id)
    /\ taskCtor' = without(taskCtor, c)
    /\ UNCHANGED <<nextTaskId, issued, monitorVars, runnerModelVars>>

\* Task::~Task: the object is gone; the counter is not touched.
TaskDestroyed(o) ==
    /\ o \in DOMAIN taskId
    /\ taskId' = without(taskId, o)
    /\ UNCHANGED <<nextTaskId, taskCtor, issued, monitorVars, runnerModelVars>>

\* Application threads construct and destroy Task objects.
NextIds ==
    \/ \E c \in Callers, o \in TaskObjects : TaskConstruct(c, o)
    \/ \E c \in Callers : TaskConstructed(c)
    \/ \E o \in TaskObjects : TaskDestroyed(o)

\* The state after construction of the runner and of SimpleTasks.
InitLibrary == Construction({"Simple"})

SpecIds == InitLibrary /\ [][NextIds]_vars

----------------------------------------------------------------------------
(* gb::ShutdownMonitor: isShuttingDown, shutdownLock and shuttingDown *)

\* ShutdownMonitor::shouldShutdown
shouldShutdown == isShuttingDown

\* The threads blocked in shuttingDown.wait or shuttingDown.wait_until.
shuttingDown == {m \in MonitorThreads : monitorPc[m] = "await_blocked"}

\* shuttingDown.notify_all(): every blocked thread is woken and has to take
\* shutdownLock again.
shuttingDownNotifyAll(p) == [m \in MonitorThreads |-> IF m \in shuttingDown THEN "await_woken" ELSE p[m]]

\* A shutdown() that does not wait for shutdownLock before it notifies.
lockNotNeeded(owner) == TRUE

\* std::lock_guard lock { shutdownLock } in shutdown(): the mutex has to be free.
lockFree(owner) == owner = NoThread

\* awaitShutdown() and awaitShutdown(timeout), the fast exit: the call returns
\* at once when shouldShutdown() is true, else goes on to take shutdownLock.
AwaitShutdownCall(m, timed) ==
    /\ monitorPc[m] = "idle"
    /\ IF shouldShutdown
       THEN /\ monitorRet' = [monitorRet EXCEPT ![m] = "fast"]
            /\ UNCHANGED <<monitorPc, timedWait>>
       ELSE /\ monitorPc' = [monitorPc EXCEPT ![m] = "await_lock"]
            /\ monitorRet' = [monitorRet EXCEPT ![m] = "none"]
            /\ timedWait' = IF timed THEN timedWait \cup {m} ELSE timedWait \ {m}
    /\ UNCHANGED <<isShuttingDown, shutdownLock, idVars, runnerModelVars>>

\* std::unique_lock lock { shutdownLock }, and the mutex taken again by a
\* thread woken from the wait.
AwaitShutdownLock(m) ==
    /\ monitorPc[m] \in {"await_lock", "await_woken"}
    /\ shutdownLock = NoThread
    /\ shutdownLock' = MonitorThread(m)
    /\ monitorPc' = [monitorPc EXCEPT ![m] = "await_pred"]
    /\ UNCHANGED <<isShuttingDown, timedWait, monitorRet, idVars, runnerModelVars>>

\* shuttingDown.wait(lock, pred) with shutdownLock held: the predicate
\* isShuttingDown.load() is evaluated; when true the call returns (the lock
\* is released), else the thread goes on to block.  The flag is atomic and
\* written outside the lock, so it can change before the thread blocks.
AwaitShutdownPred(m) ==
    /\ monitorPc[m] = "await_pred"
    /\ IF isShuttingDown
       THEN /\ monitorPc' = [monitorPc EXCEPT ![m] = "idle"]
            /\ monitorRet' = [monitorRet EXCEPT ![m] = "shutdown"]
            /\ shutdownLock' = NoThread
       ELSE /\ monitorPc' = [monitorPc EXCEPT ![m] = "await_wait"]
            /\ UNCHANGED <<monitorRet, shutdownLock>>
    /\ UNCHANGED <<isShuttingDown, timedWait, idVars, runnerModelVars>>

\* The condition variable's wait: the thread releases shutdownLock and
\* blocks, atomically.
AwaitShutdownWait(m) ==
    /\ monitorPc[m] = "await_wait"
    /\ shutdownLock' = NoThread
    /\ monitorPc' = [monitorPc EXCEPT ![m] = "await_blocked"]
    /\ UNCHANGED <<isShuttingDown, timedWait, monitorRet, idVars, runnerModelVars>>

\* wait_until(lock, limit, pred): the limit passes while the thread is blocked.
AwaitShutdownTimeout(m) ==
    /\ monitorPc[m] = "await_blocked"
    /\ m \in timedWait
    /\ monitorPc' = [monitorPc EXCEPT ![m] = "await_expired"]
    /\ UNCHANGED <<isShuttingDown, shutdownLock, timedWait, monitorRet, idVars, runnerModelVars>>

\* The timed-out thread takes shutdownLock again, wait_until returns pred()
\* and awaitShutdown(timeout) returns whatever it is.
AwaitShutdownExpired(m) ==
    /\ monitorPc[m] = "await_expired"
    /\ shutdownLock = NoThread
    /\ monitorPc' = [monitorPc EXCEPT ![m] = "idle"]
    /\ monitorRet' = [monitorRet EXCEPT ![m] = IF isShuttingDown THEN "shutdown" ELSE "timeout"]
    /\ UNCHANGED <<isShuttingDown, shutdownLock, timedWait, idVars, runnerModelVars>>

\* ShutdownMonitor::shutdown, "isShuttingDown = true": the flag is written
\* before shutdownLock is taken.
MonitorShutdownCall(m) ==
    /\ monitorPc[m] = "idle"
    /\ isShuttingDown' = TRUE
    /\ monitorPc' = [monitorPc EXCEPT ![m] = "shutdown_lock"]
    /\ monitorRet' = [monitorRet EXCEPT ![m] = "none"]
    /\ UNCHANGED <<shutdownLock, timedWait, idVars, runnerModelVars>>

\* std::lock_guard lock { shutdownLock }
MonitorShutdownLock(m) ==
    /\ monitorPc[m] = "shutdown_lock"
    /\ lockFree(shutdownLock)
    /\ shutdownLock' = MonitorThread(m)
    /\ monitorPc' = [monitorPc EXCEPT ![m] = "shutdown_notify"]
    /\ UNCHANGED <<isShuttingDown, timedWait, monitorRet, idVars, runnerModelVars>>

\* shuttingDown.notify_all(), then the lock_guard releases shutdownLock and
\* shutdown() returns.
MonitorShutdownNotify(m) ==
    /\ monitorPc[m] = "shutdown_notify"
    /\ monitorPc' = [shuttingDownNotifyAll(monitorPc) EXCEPT ![m] = "idle"]
    /\ monitorRet' = [monitorRet EXCEPT ![m] = "notified"]
    /\ shutdownLock' = NoThread
    /\ UNCHANGED <<isShuttingDown, timedWait, idVars, runnerModelVars>>

\* The steps of a thread inside awaitShutdown() or shutdown(), the passing
\* of a timeout aside.
MonitorProceeds(m) ==
    \/ AwaitShutdownLock(m)
    \/ AwaitShutdownPred(m)
    \/ AwaitShutdownWait(m)
    \/ AwaitShutdownExpired(m)
    \/ MonitorShutdownLock(m)
    \/ MonitorShutdownNotify(m)

\* Threads call awaitShutdown(), awaitShutdown(timeout) and shutdown() on one
\* monitor, in any order.
NextMonitor ==
    \/ \E m \in MonitorThreads, timed \in BOOLEAN : AwaitShutdownCall(m, timed)
    \/ \E m \in MonitorThreads : AwaitShutdownTimeout(m)
    \/ \E m \in MonitorThreads : MonitorShutdownCall(m)
    \/ \E m \in MonitorThreads : MonitorProceeds(m)

\* A thread inside a call that can take its next step again and again
\* eventually takes it; timeouts and new calls are left open.
SpecMonitor ==
    /\ InitLibrary /\ [][NextMonitor]_vars
    /\ \A m \in MonitorThreads : SF_vars(MonitorProceeds(m))

\* A call of the public API by an application thread, and its later steps.
CallerStep(c) ==
    \/ \E t \in Tasks : StartCall(c, t)
    \/ StartAwait(c)
    \/ \E t \in Tasks : CancelCall(c, t)
    \/ \E t \in Tasks : AwaitStopCall(c, t)
    \/ AwaitStopWake(c)
    \/ CancelAllCall(c)
    \/ CancelAllCancel(c)
    \/ AwaitAllCall(c)
    \/ AwaitAllWake(c)
    \/ ShutdownCall(c)
    \/ ShutdownCancel(c)
    \/ ShutdownWait(c)
    \/ ShutdownControllerLock(c)
    \/ ShutdownExitFlag(c)
    \/ ShutdownJoin(c)
    \/ ShutdownJoined(c)

WorkerStep(t) ==
    \/ WorkerStarted(t)
    \/ WorkerReturn(t)
    \/ WorkerFinished(t)
    \/ WorkerEnqueue(t)

ReaperStep ==
    \/ ReaperWait
    \/ ReaperJoin
    \/ ReaperRemoveLock
    \/ ReaperErase

\* One runner from its construction on, used by any number of threads.
Next ==
    \/ \E c \in Callers : CallerStep(c)
    \/ \E t \in Tasks : WorkerStep(t)
    \/ ReaperStep

Spec == Init /\ [][Next]_vars

\* Task::canceled is private and TaskRunner, the only friend, never calls it:
\* SpecFriend has a friend call it at any time, while tasks are started,
\* canceled and awaited.
FriendCanceled(t) ==
    /\ ~terminated
    /\ transition(t, canceledState(state[t]))
    /\ UNCHANGED <<libraryVars, processVars, runnerVars, taskKind, items, _shouldCancel, runner, thread,
                   arg, cursor, ret, dtor, historyVars>>

FriendStep(c) ==
    \/ \E t \in Tasks : StartCall(c, t)
    \/ StartAwait(c)
    \/ \E t \in Tasks : CancelCall(c, t)
    \/ \E t \in Tasks : AwaitStopCall(c, t)
    \/ AwaitStopWake(c)

NextFriend ==
    \/ \E c \in Callers : FriendStep(c)
    \/ \E t \in Tasks : WorkerStep(t)
    \/ ReaperStep
    \/ \E t \in Tasks : FriendCanceled(t)

SpecFriend == Init /\ [][NextFriend]_vars

\* The life of the process: runners are started on, shut down, destroyed and
\* constructed again, one after the other.
ProcessStep(c) ==
    \/ \E t \in Tasks : StartCall(c, t)
    \/ StartAwait(c)
    \/ ShutdownCall(c)
    \/ ShutdownCancel(c)
    \/ ShutdownWait(c)
    \/ ShutdownControllerLock(c)
    \/ ShutdownExitFlag(c)
    \/ ShutdownJoin(c)
    \/ ShutdownJoined(c)
    \/ DestructorCall(c)
    \/ DestructorShutdown(c)
    \/ DestructorMembers(c)

NextProcess ==
    \/ \E c \in Callers : ProcessStep(c)
    \/ \E t \in Tasks : WorkerStep(t)
    \/ ReaperStep
    \/ Construct

SpecProcess == Init /\ [][NextProcess]_vars

\* tests/taskRunner.cc, canCancelAllTasks: one thread starts every task (all
\* of them CancelableTask), then calls cancelAll() and then awaitAll().
TestThread == first(Callers)

CanCancelAllTasks(c) ==
    \/ \E t \in Tasks : /\ ret[c] \in {"none", "start_true"}
                        /\ ~runner[t]
                        /\ \A u \in Tasks : u < t => runner[u]
                        /\ StartCall(c, t)
    \/ StartAwait(c)
    \/ /\ ret[c] = "start_true"
       /\ \A t \in Tasks : runner[t]
       /\ CancelAllCall(c)
    \/ CancelAllCancel(c)
    \/ /\ ret[c] = "cancelAll"
       /\ AwaitAllCall(c)
    \/ AwaitAllWake(c)

InitCancelAll == Init /\ taskKind = [t \in Tasks |-> "Cancelable"]

NextCancelAll ==
    \/ CanCancelAllTasks(TestThread)
    \/ \E t \in Tasks : WorkerStep(t)
    \/ ReaperStep

SpecCancelAll == InitCancelAll /\ [][NextCancelAll]_vars

\* tests/taskRunner.cc, canCancelTask, with the calls made by any thread in
\* any order: SlowTasks are started, canceled and awaited.
CanCancelTask(c) ==
    \/ \E t \in Tasks : StartCall(c, t)
    \/ StartAwait(c)
    \/ \E t \in Tasks : CancelCall(c, t)
    \/ \E t \in Tasks : AwaitStopCall(c, t)
    \/ AwaitStopWake(c)

InitCancelTask == Construction(SlowKinds)

NextCancelTask ==
    \/ \E c \in Callers : CanCancelTask(c)
    \/ \E t \in Tasks : WorkerStep(t)
    \/ ReaperStep

SpecCancelTask == InitCancelTask /\ [][NextCancelTask]_vars

\* tests/taskRunner.cc, canStartTask, repeated by one thread: a SimpleTask is
\* started and awaited, then the next one or the same one again.
CanStartTask(c) ==
    \/ \E t \in Tasks : StartCall(c, t)
    \/ StartAwait(c)
    \/ \E t \in Tasks : runner[t] /\ AwaitStopCall(c, t)
    \/ AwaitStopWake(c)

InitStartTask == Init /\ taskKind = [t \in Tasks |-> "Simple"]

NextStartTask ==
    \/ CanStartTask(TestThread)
    \/ \E t \in Tasks : WorkerStep(t)
    \/ ReaperStep

SpecStartTask == InitStartTask /\ [][NextStartTask]_vars

\* Tasks of a subclass that never calls started(), next to SimpleTasks: they
\* are started, canceled and awaited by any thread.
InitSilent == Construction(SilentKinds \cup {"Simple"})

NextSilent ==
    \/ \E c \in Callers : CanCancelTask(c)
    \/ \E t \in Tasks : WorkerStep(t)
    \/ ReaperStep

SpecSilent == InitSilent /\ [][NextSilent]_vars

\* CancelableTasks are started and canceled by any thread, and one thread
\* calls shutdown(), once.
ShutdownOnce(c) == flipper = NoThread /\ ShutdownCall(c)

\* The steps of a shutdown() call after its compare-and-set.
ShutdownProceeds(c) ==
    \/ ShutdownCancel(c)
    \/ ShutdownWait(c)
    \/ ShutdownControllerLock(c)
    \/ ShutdownExitFlag(c)
    \/ ShutdownJoin(c)
    \/ ShutdownJoined(c)

NextShutdown ==
    \/ ShutdownOnce(TestThread)
    \/ ShutdownProceeds(TestThread)
    \/ \E c \in Callers, t \in Tasks : StartCall(c, t)
    \/ \E c \in Callers : StartAwait(c)
    \/ \E c \in Callers, t \in Tasks : CancelCall(c, t)
    \/ \E t \in Tasks : WorkerStep(t)
    \/ ReaperStep

\* SimpleTasks are started and canceled by any thread, any thread calls
\* cancelAll() and awaitAll(), and one thread calls shutdown(), once.
NextSingleShutdown ==
    \/ ShutdownOnce(TestThread)
    \/ ShutdownProceeds(TestThread)
    \/ \E c \in Callers, t \in Tasks : StartCall(c, t)
    \/ \E c \in Callers : StartAwait(c)
    \/ \E c \in Callers, t \in Tasks : CancelCall(c, t)
    \/ \E c \in Callers : CancelAllCall(c)
    \/ \E c \in Callers : CancelAllCancel(c)
    \/ \E c \in Callers : AwaitAllCall(c)
    \/ \E c \in Callers : AwaitAllWake(c)
    \/ \E t \in Tasks : WorkerStep(t)
    \/ ReaperStep

SpecSingleShutdown == InitStartTask /\ [][NextSingleShutdown]_vars

\* The steps of a parent task's action() after started().
ParentStep(t) ==
    \/ ParentStartChild(t)
    \/ ParentAwaitChild(t)
    \/ ParentReturn(t)

\* Fair scheduling: a thread inside a call, a worker thread or the reaper
\* thread that is able to take its next step again and again (a mutex it needs
\* is free again and again) eventually takes it.  Whether and when the
\* application makes a new call is left open.
FairScheduling ==
    /\ SF_vars(ShutdownProceeds(TestThread))
    /\ \A c \in Callers : SF_vars(StartAwait(c))
    /\ \A t \in Tasks : SF_vars(WorkerStep(t))
    /\ SF_vars(ReaperStep)

SpecShutdown == InitCancelAll /\ [][NextShutdown]_vars /\ FairScheduling

\* A parent task whose child is a parent task or a SimpleTask: any thread
\* starts them, a parent task starts its child from its action(), and one
\* thread calls shutdown(), once.
InitParent == Construction(ParentKinds \cup {"Simple"}) /\ taskKind[1] \in ParentKinds

NextParent ==
    \/ ShutdownOnce(TestThread)
    \/ ShutdownProceeds(TestThread)
    \/ \E c \in Callers, t \in Tasks : StartCall(c, t)
    \/ \E c \in Callers : StartAwait(c)
    \/ \E t \in Tasks : WorkerStep(t)
    \/ \E t \in Tasks : ParentStep(t)
    \/ ReaperStep

SpecParent ==
    /\ InitParent /\ [][NextParent]_vars
    /\ FairScheduling
    /\ \A t \in Tasks : SF_vars(ParentStep(t))

----------------------------------------------------------------------------
(* Properties *)

TypeOK ==
    /\ _true \in BOOLEAN /\ _isActive \in BOOLEAN /\ alive \in BOOLEAN /\ terminated \in BOOLEAN
    /\ tasks \subseteq Tasks
    /\ state \in [Tasks -> States]
    /\ \A c \in Callers : arg[c] \in Tasks \cup {0}

\* The moves of the state machine Created -> Started -> {Canceled | Finished}.
Forward(s, n) ==
    \/ n = s
    \/ s = "Created" /\ n = "Started"
    \/ s = "Started" /\ n \in {"Canceled", "Finished"}

\* C1: every task is Created after construction, and every step of any thread
\* (start(), the worker's started() and finished(), cancel(), a friend's
\* canceled()) leaves each task's state as it was or moves it forward along
\* Created -> Started -> {Canceled | Finished}: never back to Created, never
\* out of Canceled or Finished.
C1_StateOnlyMovesForward ==
    /\ \A t \in Tasks : state[t] = "Created"
    /\ [][\A t \in Tasks : Forward(state[t], state'[t])]_vars

\* C1 witness: finished() was called on a task that canceled() had already
\* moved to Canceled, and the task is still Canceled.
C1_Witness ==
    \E t \in Tasks : state[t] = "Canceled" /\ thread[t] = "enqueue"

\* The step in which a start() call returns true.
StartReturnsTrue(c) == pc[c] = "start_await" /\ pc'[c] = "idle"

C3_AllTasksCanceled ==
    ret[TestThread] = "awaitAll" => \A t \in Tasks : state[t] = "Canceled"

\* C4: while the live set is empty no thread is left blocked in the wait of
\* awaitAll() or shutdown(): the removal that empties the set releases them all.
C4_EmptyReleasesEveryWaiter ==
    drained => isEmptySignal = {}

\* C5 (as claimed): no thread holds tasksLock and threadControllerLock at the
\* same time.
C5_NeverBothLocks ==
    ~(tasksLock # NoThread /\ tasksLock = threadControllerLock)

\* C5 (amended): only the reaper ever holds both locks, inside removeTask with
\* threadControllerLock taken first; a shutdown() call has released tasksLock
\* when it takes threadControllerLock.
C5_OnlyReaperHoldsBoth ==
    /\ (tasksLock # NoThread /\ tasksLock = threadControllerLock)
           => (tasksLock = ReaperThread /\ threadController = "erase")
    /\ \A c \in Callers :
           pc[c] \in {"shutdown_ctl", "shutdown_exit"} => tasksLock # Caller(c)

\* C5 witness: the reaper holds both locks.
C5_Witness ==
    tasksLock = ReaperThread /\ threadControllerLock = ReaperThread

\* Every task has stopped, every task thread and the reaper have been joined.
AllStopped ==
    /\ tasks = {}
    /\ \A t \in Tasks : thread[t] \in {"none", "joined"}
    /\ threadController = "exited"
    /\ threadControllerJoined

\* C6: when the body of ~TaskRunner has returned (its shutdown() call is over
\* and the members are about to be destroyed) every task has stopped and every
\* thread has been joined.
C6_DestructorReturnsStopped ==
    \A c \in Callers : pc[c] = "dtor_members" => AllStopped

\* C7: once the shutdown() call that changed the flag from true to false has
\* returned, it has called cancel() on every task that was registered when it
\* changed the flag, the live set is empty, and the reaper was told to exit,
\* has exited and has been joined.
C7_FlippingShutdownDoesTheWork ==
    flipper[1] = "returned" =>
        /\ snapshot \subseteq cancelCalled
        /\ tasks = {}
        /\ threadControllerShouldExit
        /\ threadController = "exited"
        /\ threadControllerJoined

\* C7 witness: that call has returned, and tasks were registered when it began.
C7_Witness ==
    flipper[1] = "returned" /\ snapshot # {}

\* The positions of a shutdown() call inside its cancel / drain / reaper-stop sequence.
ShutdownSequence ==
    {"shutdown_cancel", "shutdown_wait", "shutdown_blocked", "shutdown_wake",
     "shutdown_ctl", "shutdown_exit", "shutdown_join", "shutdown_joining"}

\* C8: no shutdown() call ends in std::terminate, and the only call that ever
\* runs the cancel / drain / reaper-stop sequence is the one that changed the
\* flag from true to false.
C8_OneShutdownRunsTheSequence ==
    /\ ~terminated
    /\ \A c \in Callers : pc[c] \in ShutdownSequence => flipper = Caller(c)

\* C9: a start() call on a runner whose flag is false returns false, spawns
\* no thread, and leaves the live set and every task's state, back-reference
\* and cancellation flag as they were.
C9_InactiveStartHasNoEffect ==
    [][\A c \in Callers, t \in Tasks : (~_isActive /\ StartCall(c, t)) =>
          /\ ret'[c] = "start_false"
          /\ pc'[c] = "idle"
          /\ UNCHANGED <<tasks, tasksLock, thread, state, runner, _shouldCancel>>]_vars

\* C9 witness: a start() was rejected by a runner that is shut down and on
\* which no task was ever started: no task has a thread or a back-reference.
C9_Witness ==
    /\ ~_isActive
    /\ \E c \in Callers : ret[c] = "start_false"
    /\ tasks = {}
    /\ \A t \in Tasks : thread[t] = "none" /\ state[t] = "Created" /\ ~runner[t]

\* C10: the flag starts true and no step makes it true again; while it is
\* false no step adds a task to the live set.
C10_ActiveFlagFallsOnce ==
    /\ _isActive = TRUE
    /\ [][/\ _isActive' => _isActive
          /\ ~_isActive => tasks' \subseteq tasks]_vars

\* C10 witness: a start() was rejected while the shutdown() that cleared the
\* flag is still waiting for the live set to drain.
C10_Witness ==
    /\ ~_isActive
    /\ tasks # {}
    /\ \E c \in Callers : ret[c] = "start_false" /\ flipper # Caller(c)
    /\ \E d \in Callers : flipper = Caller(d) /\ pc[d] = "shutdown_blocked"

\* C11: a start() call for a task that is still in the live set (running, or
\* finished and not yet reaped) returns false, spawns no thread, and leaves the
\* live set and the task's state, back-reference and flag as they were; the
\* live set, ordered by task id, therefore never holds a task twice and every
\* task in it has exactly the one thread its accepted start() spawned.
C11_DuplicateStartRejected ==
    /\ [][\A c \in Callers, t \in Tasks : (t \in tasks /\ StartCall(c, t)) =>
             /\ ret'[c] = "start_false"
             /\ pc'[c] = "idle"
             /\ UNCHANGED <<tasks, tasksLock, thread, state, runner, _shouldCancel>>]_vars
    /\ [](\A t \in tasks : runner[t] /\ thread[t] # "none")

\* C11 witness: on an active runner a start() was rejected while the only task
\* ever registered has finished, its thread has ended, and the reaper has not
\* removed it yet.
C11_Witness ==
    /\ _isActive
    /\ \E c \in Callers : ret[c] = "start_false"
    /\ \E t \in Tasks :
          /\ tasks = {t}
          /\ state[t] = "Finished" /\ thread[t] = "exited"
          /\ \A u \in Tasks \ {t} : ~runner[u]

\* C12: no cancel() call, made directly or by cancelAll() or shutdown(),
\* changes a task's state; a cancel() on a Started task leaves its flag set;
\* no step of any thread clears a flag that is set, so shouldCancel() stays
\* true; and a cancel() on a task whose flag is set changes nothing.
C12_CancelOnlySetsTheFlag ==
    [][/\ \A t \in Tasks : _shouldCancel[t] => _shouldCancel'[t]
       /\ \A c \in Callers :
             (CancelAllCancel(c) \/ ShutdownCancel(c)) => state' = state
       /\ \A c \in Callers, t \in Tasks : CancelCall(c, t) =>
             /\ state' = state
             /\ state[t] = "Started" => _shouldCancel'[t]
             /\ _shouldCancel[t] => UNCHANGED <<runnerVars, taskVars>>]_vars

\* C12 witness: cancel() was called and a task that is still Started, its
\* action still running, has its flag set.
C12_Witness ==
    /\ \E c \in Callers : ret[c] = "cancel"
    /\ \E t \in Tasks : _shouldCancel[t] /\ state[t] = "Started" /\ thread[t] = "running"

\* C13: a cancel() on a task that is Created, Canceled or Finished changes
\* neither its flag nor anything else of the task; a Created task never has its
\* flag set, so a task enters Started with shouldCancel() false whatever
\* cancel() calls came before.
C13_CancelOutsideStartedIsDropped ==
    /\ [][\A c \in Callers, t \in Tasks : (state[t] # "Started" /\ CancelCall(c, t)) =>
             UNCHANGED <<runnerVars, taskVars>>]_vars
    /\ [](\A t \in Tasks : state[t] = "Created" => ~shouldCancel(t))
    /\ [][\A t \in Tasks : (state[t] = "Created" /\ state'[t] = "Started") =>
             ~shouldCancel(t)']_vars

\* C13 witness: cancel() has been called while every task was still Created,
\* one of them registered with its thread spawned and started() not yet called.
C13_Witness ==
    /\ \E c \in Callers : ret[c] = "cancel"
    /\ \A t \in Tasks : state[t] = "Created"
    /\ \E t \in Tasks : thread[t] = "action"

\* start(task) has returned true and the task has not been reaped since.
startReturned(t) ==
    /\ t \in tasks
    /\ \A c \in Callers : ~(arg[c] = t /\ pc[c] \in {"start_await", "start_blocked"})

\* The action of the thread spawned for t has not evaluated shouldCancel() yet.
beforeCheck(t) == thread[t] \in {"action", "running"}

\* C14: a cancel() called after start(task) returned true and before the
\* action evaluates shouldCancel() leaves the flag set, and a SlowTask whose
\* evaluation finds the flag set returns without adding its item.
C14_CancelAfterStartIsSeen ==
    [][/\ \A c \in Callers, t \in Tasks :
             (CancelCall(c, t) /\ startReturned(t) /\ beforeCheck(t)) => shouldCancel(t)'
       /\ \A t \in Tasks : (WorkerReturn(t) /\ shouldCancel(t)) => items' = items]_vars

\* What does hold: the flag is left set when the task was not already Canceled
\* or Finished when it was started; on a task started again after it stopped
\* the cancel() is dropped and the flag keeps the value it had.
CancelAfterFirstStartIsSeen ==
    [][/\ \A c \in Callers, t \in Tasks :
             (CancelCall(c, t) /\ startReturned(t) /\ beforeCheck(t)) =>
                 IF isStopped(t) THEN UNCHANGED _shouldCancel ELSE shouldCancel(t)'
       /\ \A t \in Tasks : (WorkerReturn(t) /\ shouldCancel(t)) => items' = items]_vars


\* The step in which an awaitStop() call on task t returns to caller c.
AwaitStopReturns(c, t) ==
    /\ AwaitStopCall(c, t) \/ (AwaitStopWake(c) /\ arg[c] = t)
    /\ pc'[c] = "idle"

\* C15: an awaitStop() call returns only in a step in which the task's state
\* is Canceled or Finished; a call made when the state is already Canceled or
\* Finished returns in its first step; and a state that is Canceled or
\* Finished is never changed by any step, so a later getState() reads it again.
C15_AwaitStopReturnsWhenStopped ==
    [][/\ \A c \in Callers, t \in Tasks :
             AwaitStopReturns(c, t) => state'[t] \in {"Canceled", "Finished"}
       /\ \A c \in Callers, t \in Tasks :
             (AwaitStopCall(c, t) /\ state[t] \in {"Canceled", "Finished"}) =>
                 pc'[c] = "idle" /\ ret'[c] = "awaitStop"
       /\ \A t \in Tasks :
             state[t] \in {"Canceled", "Finished"} => state'[t] = state[t]]_vars

\* C15 witness: awaitStop() has returned on the only task that ever left
\* Created, and that task is Canceled.
C15_Witness ==
    \E c \in Callers, t \in Tasks :
        /\ ret[c] = "awaitStop"
        /\ state[t] = "Canceled"
        /\ \A u \in Tasks \ {t} : state[u] = "Created"

\* C20: while a task's state is Canceled or Finished no thread is left blocked
\* in the wait of awaitStop() on it, however many threads were waiting when the
\* state changed and whatever cancel() calls were made meanwhile: the
\* transition wakes every one of them.
C20_StopWakesEveryWaiter ==
    \A t \in Tasks : state[t] \in {"Canceled", "Finished"} =>
        \A c \in Callers : ~(pc[c] = "stop_blocked" /\ arg[c] = t)

\* C20 witness: every application thread was blocked in awaitStop() on the
\* same task and has been woken by its transition to a terminal state.
C20_Witness ==
    \E t \in Tasks :
        /\ state[t] \in {"Canceled", "Finished"}
        /\ \A c \in Callers : pc[c] = "stop_check" /\ arg[c] = t

\* C16: in canStartTask, when awaitStop() returns on a task that was started,
\* no action() of that task is still on its way to its side effect, and the
\* task's item is in the collection.
C16_AwaitStopSeesSideEffects ==
    [][\A t \in Tasks : AwaitStopReturns(TestThread, t) =>
          ~beforeCheck(t)' /\ t \in items']_vars

\* What does hold: a task is Finished only after the action() run by its
\* first start has added its item.
FinishedAfterFirstAction ==
    \A t \in Tasks : state[t] = "Finished" => t \in items

\* The step in which an awaitAll() call returns to caller c.
AwaitAllReturns(c) ==
    /\ AwaitAllCall(c) \/ AwaitAllWake(c)
    /\ pc'[c] = "idle"

\* Task t was registered, its action has returned, the reaper has joined its
\* thread and its entry has been removed from the live set.
reaped(t) == thread[t] = "joined" /\ t \notin tasks

\* C17: awaitAll() returns only in a step in which the live set is empty, and
\* the live set is empty exactly when every task that was registered has been
\* reaped: its latest action has returned, its thread was joined by the reaper
\* and its entry removed.
C17_AwaitAllReturnsWhenAllReaped ==
    /\ [][\A c \in Callers : AwaitAllReturns(c) => tasks' = {}]_vars
    /\ [](tasks = {} <=> \A t \in Tasks : runner[t] => reaped(t))

\* C17 witness: awaitAll() has returned after every task was registered, ran
\* and was reaped.
C17_Witness ==
    /\ \E c \in Callers : ret[c] = "awaitAll"
    /\ tasks = {}
    /\ \A t \in Tasks : runner[t] /\ reaped(t)

\* The action() of task t returns without calling started().
silent(t) == taskKind[t] \in SilentKinds

\* A start() call of caller c is waiting in awaitStart().
InStart(c) == pc[c] \in {"start_await", "start_blocked"}

\* C18: a task whose action() never calls started() is Created in every
\* reachable state, also after the worker's finished(); a start() call that
\* launched it stays inside awaitStart() in every step; and no awaitStop() call
\* on it ever returns.
C18_SilentTaskBlocksStart ==
    /\ [](\A t \in Tasks : silent(t) => state[t] = "Created")
    /\ [][\A c \in Callers : (InStart(c) /\ silent(arg[c])) => InStart(c)']_vars
    /\ [][\A c \in Callers, t \in Tasks : silent(t) => ~AwaitStopReturns(c, t)]_vars

\* C18 witness: the action() of such a task has returned, finished() was
\* called and the thread joined; the start() call is still blocked holding
\* tasksLock, the reaper waits for that lock in removeTask(), and another
\* thread is blocked in awaitStop() on the task.
C18_Witness ==
    \E t \in Tasks, c, d \in Callers :
        /\ silent(t) /\ thread[t] = "joined" /\ state[t] = "Created"
        /\ pc[c] = "start_blocked" /\ arg[c] = t /\ tasksLock = Caller(c)
        /\ threadController = "remove"
        /\ pc[d] = "stop_blocked" /\ arg[d] = t

queued == {finishingTasks[i] : i \in 1..Len(finishingTasks)}

\* The tasks the runner holds a reference to: the live set and the queue.
held == tasks \cup queued

\* C21: a task leaves the live set only in a step in which its thread has been
\* joined by the reaper, and the runner gives up its last reference to a task
\* (live set and finishing queue) only then; while a task has a thread that
\* is not joined it is in the live set; a thread is joined only when it has
\* ended, and by then its action has returned and finished() has left the
\* task stopped.
C21_ReleasedOnlyAfterJoin ==
    /\ [][\A t \in Tasks :
             /\ (t \in tasks /\ t \notin tasks') => thread[t] = "joined"
             /\ (t \in held /\ t \notin held') => thread'[t] = "joined"
             /\ (thread[t] # "joined" /\ thread'[t] = "joined") => thread[t] = "exited"]_vars
    /\ [](\A t \in Tasks : thread[t] \notin {"none", "joined"} => t \in tasks)
    /\ [](\A t \in Tasks : thread[t] \in {"exited", "joined"} => isStopped(t))

\* C21 witness: the reaper has joined a task's thread and holds tasksLock in
\* removeTask(), about to drop the task from the live set.
C21_Witness ==
    \E t \in Tasks :
        /\ threadController = "erase" /\ finishingTasks[reaperIndex] = t
        /\ thread[t] = "joined" /\ t \in tasks /\ state[t] = "Finished"

\* The step in which caller c's shutdown() call, made directly or by the
\* destructor, executes its compare-and-set.
ShutdownCompareAndSet(c) == ShutdownCall(c) \/ DestructorShutdown(c)

\* C26: whenever shutdown() executes its compare-and-set on a runner whose
\* flag is true, the flag becomes false and the call goes on to the cancel /
\* drain / reaper-stop work, whatever the earlier calls left in gb::_true.
C26_ShutdownDependsOnOwnFlagOnly ==
    [][\A c \in Callers : (ShutdownCompareAndSet(c) /\ _isActive) =>
          /\ ~_isActive'
          /\ pc'[c] \in ShutdownSequence]_vars

\* C28: a shutdown() call that finds the flag false returns at once: it takes
\* no step of the cancel / drain / reaper-stop sequence.
C28_InactiveShutdownReturnsAtOnce ==
    [][\A c \in Callers : (ShutdownCall(c) /\ ~_isActive) =>
          /\ pc'[c] = "idle"
          /\ ret'[c] = "shutdown_noop"]_vars

\* Caller c's start() waits in awaitStart() for a task that is still Created.
waitingForStarted(c) == InStart(c) /\ state[arg[c]] = "Created"

\* The positions of a thread outside the runner's methods: idle, or inside
\* Task::awaitStop.
OutsideRunner == {"idle", "stop_blocked", "stop_check"}

\* C29: while a start() call waits for its task to call started() it owns
\* tasksLock, and every step taken meanwhile leaves the live set, the active
\* flag and the reaper's removal untouched and lets no other thread enter or
\* advance in start(), cancelAll(), awaitAll() or shutdown().
C29_StartHoldsLockWhileWaiting ==
    /\ [](\A c \in Callers : InStart(c) => tasksLock = Caller(c))
    /\ [][\A c \in Callers : (waitingForStarted(c) /\ state'[arg[c]] = "Created") =>
             /\ UNCHANGED <<tasks, tasksLock, _isActive, _true, cursor, flipper>>
             /\ threadController' # "erase"
             /\ \A d \in Callers \ {c} :
                   \/ pc'[d] = pc[d] /\ ret'[d] \in {ret[d], "cancel", "awaitStop"}
                   \/ pc[d] \in OutsideRunner /\ pc'[d] \in OutsideRunner]_vars

\* C29 witness: a start() call is blocked on a Created task while the reaper,
\* with a joined task at hand, waits for tasksLock in removeTask().
C29_Witness ==
    \E c \in Callers :
        /\ waitingForStarted(c) /\ pc[c] = "start_blocked"
        /\ threadController = "remove"

\* C25: under fair scheduling every task whose action() has returned is
\* eventually joined by the reaper and removed from the live set, whether or
\* not awaitAll() or shutdown() is ever called; the reaper exits only in a
\* step that finds the exit flag set, and whenever it has exited the flag is
\* set and the finishing queue is empty.
C25_ReaperReapsEveryFinishedTask ==
    /\ \A t \in Tasks : (thread[t] = "returned") ~> reaped(t)
    /\ [][(threadController # "exited" /\ threadController' = "exited") =>
             threadControllerShouldExit]_vars
    /\ [](threadController = "exited" =>
             threadControllerShouldExit /\ finishingTasks = <<>>)

\* C25 witness: every task has run and been reaped on a runner on which
\* shutdown() was never called.
C25_Witness ==
    /\ flipper = NoThread /\ _isActive
    /\ \A t \in Tasks : reaped(t) /\ state[t] = "Finished"

\* C30: a start() call on an active runner for a task that is Canceled or
\* Finished and not in the live set registers it and spawns a thread, and its
\* awaitStart() returns true without blocking; no step changes a state that is
\* Canceled or Finished; and under fair scheduling the task started again is
\* joined and removed from the live set again.
C30_StoppedTaskCanBeStartedAgain ==
    /\ [][\A c \in Callers, t \in Tasks :
             (StartCall(c, t) /\ isActive /\ t \notin tasks /\ isStopped(t)) =>
                 t \in tasks' /\ thread'[t] = "action" /\ pc'[c] = "start_await"]_vars
    /\ [][\A c \in Callers : (StartAwait(c) /\ isStopped(arg[c])) =>
             ret'[c] = "start_true"]_vars
    /\ [][\A t \in Tasks : state[t] \in {"Canceled", "Finished"} => state'[t] = state[t]]_vars
    /\ \A t \in Tasks : (thread[t] = "action" /\ isStopped(t)) ~> reaped(t)

\* C30 witness: start() has returned true for a Finished task, whose action is
\* running again on a new thread.
C30_Witness ==
    \E c \in Callers, t \in Tasks :
        /\ ret[c] = "start_true"
        /\ state[t] = "Finished" /\ thread[t] = "running" /\ t \in tasks


\* No task is live, none can be registered any more, and every task thread has
\* been joined and dropped from the finishing queue: removeTask() will not
\* run again, so isEmptySignal will not be notified again.
quiescent ==
    /\ drained /\ ~_isActive
    /\ finishingTasks = <<>>
    /\ \A t \in Tasks : thread[t] \in {"none", "joined"}

\* C27: with tasks that call started() and return, and one shutdown() call,
\* no thread is left blocked in a wait that nothing will end; the two runner
\* locks are nested only in the order threadControllerLock then tasksLock, and
\* no thread waits on a task's state while it holds threadControllerLock.
C27_NoDeadlock ==
    /\ quiescent => isEmptySignal = {}
    /\ (tasksLock # NoThread /\ threadControllerLock # NoThread
           /\ tasksLock = threadControllerLock) => threadController = "erase"
    /\ \A c \in Callers : waitingForStarted(c) => threadControllerLock # Caller(c)


\* The positions of a worker thread inside action().
InAction == {"action", "running", "child_lock", "child_await", "child_true", "child_false"}

\* C23: while a task's thread is inside action() getTaskRunner() returns the
\* runner that started it; a start(child) made from action() after started()
\* registers the child and spawns its thread when the runner is active and
\* the child is not live, returns false without effect otherwise, and under
\* fair scheduling always returns.
C23_ActionCanStartChild ==
    /\ [](\A t \in Tasks : thread[t] \in InAction => getTaskRunner(t))
    /\ [][\A t \in Tasks : ParentStartChild(t) =>
             IF isActive /\ child(t) \notin tasks
             THEN /\ child(t) \in tasks' /\ thread'[child(t)] = "action"
                  /\ getTaskRunner(child(t))'
                  /\ thread'[t] = "child_await"
             ELSE tasks' = tasks /\ thread'[t] = "child_false"]_vars
    /\ [][\A t \in Tasks : ParentAwaitChild(t) =>
             state[child(t)] # "Created" /\ thread'[t] = "child_true"]_vars
    /\ \A t \in Tasks :
           (thread[t] = "child_lock") ~> (thread[t] \in {"child_true", "child_false"})

\* C23 witness: start(child) made from action() has returned true and the
\* child, registered on the active runner, is running.
C23_Witness ==
    \E t \in Tasks :
        /\ thread[t] = "child_true" /\ _isActive
        /\ child(t) \in tasks /\ thread[child(t)] = "running" /\ state[child(t)] = "Started"


\* C22: the ids handed out by the counter are strictly increasing in the
\* order of the constructions, so none is handed out twice; any two Task
\* objects that exist or are under construction, on whichever threads, have
\* different ids; every id in use was handed out before and lies below the
\* counter, which never decreases.
C22_TaskIdsUniqueAndIncreasing ==
    /\ [](\A i, j \in 1..Len(issued) : i < j => issued[i] < issued[j])
    /\ [](\A o, q \in DOMAIN taskId : o # q => taskId[o] # taskId[q])
    /\ [](\A c, d \in DOMAIN taskCtor : c # d => taskCtor[c].id # taskCtor[d].id)
    /\ [](\A o \in DOMAIN taskId, c \in DOMAIN taskCtor : taskId[o] # taskCtor[c].id)
    /\ [](\A o \in DOMAIN taskId : taskId[o] < nextTaskId
                                   /\ \E i \in 1..Len(issued) : issued[i] = taskId[o])
    /\ [][nextTaskId' >= nextTaskId]_vars

\* C22 witness: two threads are inside the Task constructor at the same time,
\* next to an object that exists, after an earlier object was destroyed.
C22_Witness ==
    /\ Cardinality(DOMAIN taskCtor) = 2
    /\ DOMAIN taskId # {}
    /\ Len(issued) > Cardinality(DOMAIN taskId) + 2


\* The positions of a thread inside awaitShutdown() past the fast exit.
Awaiting == {"await_lock", "await_pred", "await_wait", "await_blocked", "await_woken",
             "await_expired"}

\* C24: an awaitShutdown() call made when shutdown has been triggered returns
\* at once, without taking the lock; whenever a thread is blocked in the wait
\* although the flag is set, a shutdown() call is still on its way to
\* notify_all; every thread inside awaitShutdown() once the flag is set
\* returns; and the flag, once set, stays set.
C24_AwaitShutdownReturnsAfterShutdown ==
    /\ [][\A m \in MonitorThreads, timed \in BOOLEAN :
             (AwaitShutdownCall(m, timed) /\ isShuttingDown) =>
                 monitorPc'[m] = "idle" /\ monitorRet'[m] = "fast"]_vars
    /\ [](\A m \in MonitorThreads : (monitorPc[m] = "await_blocked" /\ isShuttingDown) =>
             \E n \in MonitorThreads : monitorPc[n] \in {"shutdown_lock", "shutdown_notify"})
    /\ \A m \in MonitorThreads :
           (monitorPc[m] \in Awaiting /\ isShuttingDown) ~> (monitorPc[m] = "idle")
    /\ [][shouldShutdown => shouldShutdown']_vars

\* C24 witness: shutdown() has written the flag and waits for the lock while
\* one thread is blocked in the wait and another, which holds the lock and
\* found the flag unset, is about to block.
C24_Witness ==
    \E m, n, k \in MonitorThreads :
        /\ monitorPc[m] = "await_blocked" /\ m \notin timedWait
        /\ monitorPc[n] = "await_wait" /\ n \notin timedWait
        /\ monitorPc[k] = "shutdown_lock" /\ isShuttingDown

====
